---- MODULE Spec2Model ----
(***************************************************************************)
(* Model of the template-fill pipeline of The-Filler-Inner.                *)
(*                                                                         *)
(* Several state machines share this module:                               *)
(*   Spec    one TemplateModal session (components/templateModal/          *)
(*           templateModal.ts): selection, instruction input, the 100 ms   *)
(*           status interval, the submit handler and its awaits, the       *)
(*           fire-and-forget optimizePrompt calls, onClose;                *)
(*   FairSpec  the same session with prompt optimization off and weak      *)
(*           fairness on the completions the submit handler awaits;        *)
(*   SpecTM  one TemplateManager (services/template-manager.ts) with its   *)
(*           time-boxed cache, called by concurrent async callers that     *)
(*           suspend at the awaits of the scan;                            *)
(*   SpecLLM one LLMService with its OpenRouterAdapter and the             *)
(*           PromptOptimizer, under one caller and settings updates;       *)
(*   SpecOpt the instruction field of one session with optimization on,   *)
(*           recording the order of its optimizePrompt calls;              *)
(*   SpecPlugin  the services of a loaded plugin with the settings tab     *)
(*           open: provider and API key changes between generations;       *)
(*   SpecFS  one FileService (services/fileService.ts) writing into the    *)
(*           output folder, called by the tail of the submit handler,      *)
(*           next to another writer and the clock.                         *)
(* Texts are sequences of characters so that trim() is computed.           *)
(***************************************************************************)
EXTENDS Integers, Sequences, FiniteSets, TLC

\* ------------------------------------------------------------------ bounds
MaxOpt == 2        \* optimizePrompt adapter requests in flight at once

\* ------------------------------------------------------------------- texts
\* the texts typed and received: empty, whitespace only, and with content
Texts == {<<>>, <<" ">>, <<"a">>}

IsSpace(c) == c \in {" ", "\n"}

RECURSIVE TrimStart(_)
TrimStart(s) ==
    IF s = <<>> THEN <<>>
    ELSE IF IsSpace(Head(s)) THEN TrimStart(Tail(s)) ELSE s

RECURSIVE TrimEnd(_)
TrimEnd(s) ==
    IF s = <<>> THEN <<>>
    ELSE IF IsSpace(s[Len(s)]) THEN TrimEnd(SubSeq(s, 1, Len(s) - 1)) ELSE s

\* String.prototype.trim
Trim(s) == TrimEnd(TrimStart(s))

\* JavaScript truthiness of a string
Truthy(s) == s # <<>>

\* Template.toString() of a plain object: "[object Object]", never empty
ObjectText == <<"o">>

\* ------------------------------------------------------------ modal state
NoTemplate == "none"
Templates == {"t1", "t2"}

IDLE == "idle"
PROCESSING == "processing"
COMPLETE == "complete"
ERROR == "error"

\* adapter results as seen by LLMService.generateFilledTemplate
Responses ==
    {[success |-> TRUE, data |-> d] : d \in Texts}
        \cup {[success |-> FALSE, data |-> <<>>]}

VARIABLES
    phase,             \* "constructed" | "open" | "closed"
    config,            \* [useOptimization, adapterReady], fixed at construction
    dropdownLoaded,    \* dropdown.setTemplates has run
    selectedTemplate,  \* this.selectedTemplate
    promptValue,       \* promptInput textarea value
    processingStatus,  \* this.processingStatus
    buttonDisabled,    \* submitButton disabled attribute
    intervalId,        \* TRUE while the 100 ms interval is registered
    debouncePending,   \* a debounced input callback is scheduled
    optimizedValue,    \* optimizedPromptTextarea.value: the instruction it
                       \* was computed from, whether the optimizer changed
                       \* it, and (where the order of the calls is
                       \* recorded) how many requests still outstanding
                       \* were made before the one it comes from
    submitPc,          \* "none" | "generate" | "write": await the handler is at
    pipeline,          \* locals of the running submit handler
    optInFlight,       \* instructions of the optimize requests in flight
    lastNotice,        \* last Notice shown
    files,             \* output files created by the session
    stats              \* what the current or last accepted submit has done

modalVars == <<phase, config, dropdownLoaded, selectedTemplate, promptValue,
               processingStatus, buttonDisabled, intervalId, debouncePending,
               optimizedValue, submitPc, pipeline, optInFlight, lastNotice,
               files, stats>>

\* the template manager service and the vault it reads
VARIABLES
    now,            \* Date.now()
    vault,          \* [folder |-> templates folder exists, mtime |-> per file]
    templatesPath,  \* this.templatesPath
    templateCache,  \* this.templateCache: path -> Template
    lastScanTime,   \* this.lastScanTime
    pc,             \* per caller: "idle" | "walk" | "stamp" | "answer"
    call,           \* per caller: the locals of its call
    lastAnswer,     \* the last call that returned or raised since the last
                    \* reset: its method, its start time and its value
    resetPending,   \* a reset ran and no call has started since
    templateExtension  \* settings.paths.templateExtension

tmVars == <<now, vault, templatesPath, templateCache, lastScanTime, pc, call,
            lastAnswer, resetPending, templateExtension>>

\* the LLM service, its adapter and the prompt optimizer, called on their own
VARIABLES
    llmConfig,        \* LLMService.config: [provider, apiKey, apiUrl,
                      \* temperature, maxTokens, model]
    adapter,          \* LLMService.adapter: NoAdapter or [id, apiKey, apiUrl]
    adapterCount,     \* OpenRouterAdapter objects constructed so far
    useOptimization,  \* PromptOptimizer.useOptimization
    svc               \* the service call that is running or ran last

svcVars == <<llmConfig, adapter, adapterCount, useOptimization, svc>>

\* the file service and the output folder of the vault, with the tail of
\* the submit handler as its caller
VARIABLES
    fsNow,          \* the clock new Date() reads, in milliseconds
    outputFolder,   \* a folder exists at the output path
    outputFiles,    \* the files of the output folder, by template name and
                    \* timestamp of their name
    save            \* the createFilledFile call that is running or ran last

fsVars == <<fsNow, outputFolder, outputFiles, save>>

vars == <<modalVars, tmVars, svcVars, fsVars>>

\* the submit pipeline: the template whose request is outstanding, the
\* template section and the instruction section of the adapter prompt, and
\* the arguments of createFilledFile
NoPipeline == [template |-> NoTemplate, section |-> <<>>, prompt |-> <<>>,
               writeTemplate |-> NoTemplate, content |-> <<>>]

\* the text of each template file, as vault.read returns it
TemplateText == [t1 |-> <<"a">>, t2 |-> <<" ", "a">>]

\* templateContent.toString() in processTemplate, where templateContent is
\* the Template object getTemplate returns
templateContentToString(t) == ObjectText

ZeroStats == [accepted |-> 0, genCalls |-> 0, genOk |-> 0, writeCalls |-> 0,
              writesOk |-> 0, completes |-> 0, errors |-> 0,
              successNotices |-> 0, failureNotices |-> 0, ignored |-> 0,
              inFlight |-> 0]

Bump(s, fields) == [f \in DOMAIN s |-> IF f \in fields THEN s[f] + 1 ELSE s[f]]

\* number of adapter requests of the session that are outstanding
Outstanding == (IF submitPc = "generate" THEN 1 ELSE 0) + Len(optInFlight)

\* what the field receives: the instruction the value was computed from,
\* whether the optimizer changed it, and the number n of outstanding
\* requests made before the one it comes from, kept in a session that
\* records the order of the calls
fieldValue(src, optimized, n) ==
    [src |-> src, optimized |-> optimized, ordered |-> optimizedValue.ordered,
     older |-> IF optimizedValue.ordered THEN n ELSE 0]

\* the session after construction; ordered: the order of the optimizePrompt
\* calls is recorded
InitModalFrom(ordered) ==
    /\ phase = "constructed"
    /\ config \in [useOptimization : BOOLEAN, adapterReady : BOOLEAN]
    /\ dropdownLoaded = FALSE
    /\ selectedTemplate = NoTemplate
    /\ promptValue = <<>>
    /\ processingStatus = IDLE
    /\ buttonDisabled = FALSE
    /\ intervalId = FALSE
    /\ debouncePending = FALSE
    /\ optimizedValue = [src |-> <<>>, optimized |-> FALSE,
                         ordered |-> ordered, older |-> 0]
    /\ submitPc = "none"
    /\ pipeline = NoPipeline
    /\ optInFlight = <<>>
    /\ lastNotice = "none"
    /\ files = {}
    /\ stats = ZeroStats

InitModal == InitModalFrom(FALSE)

combineVerbatim(templateContent, optimizedPrompt) == optimizedPrompt

\* PromptOptimizer.combine
combine(templateContent, optimizedPrompt) ==
    IF ~Truthy(templateContent) \/ ~Truthy(optimizedPrompt)
    THEN IF Truthy(templateContent) THEN templateContent ELSE optimizedPrompt
    ELSE Trim(optimizedPrompt)

\* TemplateModal.updateSubmitButtonState: the new value of disabled
updateSubmitButtonState(sel, value) ==
    ~(sel # NoTemplate /\ Truthy(Trim(value)))

\* TemplateModal.onOpen; loadTemplates resolves within the same task because
\* TemplateManager.getTemplates awaits no I/O
onOpen(loaded) ==
    /\ phase = "constructed"
    /\ phase' = "open"
    /\ intervalId' = TRUE
    /\ dropdownLoaded' = loaded
    /\ lastNotice' = IF loaded THEN lastNotice ELSE "loadfail"
    /\ UNCHANGED <<config, selectedTemplate, promptValue, processingStatus,
                   buttonDisabled, debouncePending, optimizedValue, submitPc,
                   pipeline, optInFlight, files, stats>>
    /\ UNCHANGED <<tmVars, svcVars, fsVars>>

\* dropdown.onSelect callback
onSelect(t) ==
    /\ phase = "open"
    /\ dropdownLoaded
    /\ selectedTemplate' = t
    /\ buttonDisabled' = updateSubmitButtonState(t, promptValue)
    /\ UNCHANGED <<phase, config, dropdownLoaded, promptValue, processingStatus,
                   intervalId, debouncePending, optimizedValue, submitPc,
                   pipeline, optInFlight, lastNotice, files, stats>>
    /\ UNCHANGED <<tmVars, svcVars, fsVars>>

\* the user edits the instruction: the textarea changes at once, the
\* listener is debounced by 100 ms
inputEvent(v) ==
    /\ phase = "open"
    /\ promptValue' = v
    /\ debouncePending' = TRUE
    /\ UNCHANGED <<phase, config, dropdownLoaded, selectedTemplate,
                   processingStatus, buttonDisabled, intervalId, optimizedValue,
                   submitPc, pipeline, optInFlight, lastNotice, files, stats>>
    /\ UNCHANGED <<tmVars, svcVars, fsVars>>

\* the setInterval callback of createLoadingIndicator
intervalTick ==
    /\ intervalId
    /\ buttonDisabled' = (processingStatus = PROCESSING)
    /\ UNCHANGED <<phase, config, dropdownLoaded, selectedTemplate, promptValue,
                   processingStatus, intervalId, debouncePending,
                   optimizedValue, submitPc, pipeline, optInFlight, lastNotice,
                   files, stats>>
    /\ UNCHANGED <<tmVars, svcVars, fsVars>>

\* TemplateModal.onClose
onClose ==
    /\ phase = "open"
    /\ phase' = "closed"
    /\ intervalId' = FALSE
    /\ UNCHANGED <<config, dropdownLoaded, selectedTemplate, promptValue,
                   processingStatus, buttonDisabled, debouncePending,
                   optimizedValue, submitPc, pipeline, optInFlight, lastNotice,
                   files, stats>>
    /\ UNCHANGED <<tmVars, svcVars, fsVars>>

\* the guard of the submit click listener: TRUE when the click is ignored
submitIgnoredNoStatus(sel, status) == sel = NoTemplate

submitIgnored(sel, status) == sel = NoTemplate \/ status = PROCESSING

\* the finally block of the submit handler: the status the handler leaves,
\* given the status its try or catch block reached
finallyStatusKeep(reached) == reached

finallyStatus(reached) == IDLE

\* the record of a submit that has just been accepted; inFlight counts the
\* handlers of the session that are suspended at an await
acceptedStats(s) ==
    [ZeroStats EXCEPT !.accepted = 1, !.inFlight = s.inFlight]

\* the catch block: failure Notice, status ERROR
catchBlock(s) == Bump(s, {"errors", "failureNotices"})

\* generateFilledTemplate has been entered
generateCalled(s) == Bump(s, {"genCalls"})

\* LLMService.generateFilledTemplate: the test on the adapter result
generationSucceeded(resp) == resp.success /\ Truthy(resp.data)

\* the handler between the return of processTemplate and the call of
\* createFilledFile
afterGenerateNoticeEarly(s) == Bump(s, {"genOk", "writeCalls", "successNotices"})

afterGenerate(s) == Bump(s, {"genOk", "writeCalls"})

\* the handler after createFilledFile returned: success Notice, COMPLETE
successTail(s) == Bump(s, {"writesOk", "completes", "successNotices"})

afterCatchRetries == "generate"

\* where the submit handler stands after its catch and finally blocks: it
\* has returned
afterCatch == "none"

\* the handler suspends at an await / resumes from it for the last time
suspended(s) == [s EXCEPT !.inFlight = @ + 1]
finished(s) == [s EXCEPT !.inFlight = @ - 1]

\* the submit click listener up to the first await that leaves the task:
\* the guard, processTemplate (getTemplate, combine) and the start of
\* LLMService.generateFilledTemplate.  found: whether the template manager
\* still has the selected path
submitClick(found) ==
    /\ phase = "open"
    /\ ~buttonDisabled
    /\ IF submitIgnored(selectedTemplate, processingStatus)
       THEN /\ lastNotice' = "please"
            /\ stats' = IF processingStatus = PROCESSING
                        THEN [stats EXCEPT !.ignored = 1] ELSE stats
            /\ UNCHANGED <<processingStatus, submitPc, pipeline>>
       ELSE IF ~found
       THEN /\ stats' = catchBlock(acceptedStats(stats))
            /\ lastNotice' = "failure"
            /\ processingStatus' = finallyStatus(ERROR)
            /\ UNCHANGED <<submitPc, pipeline>>
       ELSE IF ~config.adapterReady
       THEN /\ stats' = catchBlock(generateCalled(acceptedStats(stats)))
            /\ lastNotice' = "failure"
            /\ processingStatus' = finallyStatus(ERROR)
            /\ UNCHANGED <<submitPc, pipeline>>
       ELSE /\ stats' = suspended(generateCalled(acceptedStats(stats)))
            /\ processingStatus' = PROCESSING
            /\ submitPc' = "generate"
            /\ pipeline' = [NoPipeline EXCEPT
                              !.template = selectedTemplate,
                              !.section =
                                  templateContentToString(selectedTemplate),
                              !.prompt =
                                  combine(
                                    templateContentToString(selectedTemplate),
                                    promptValue)]
            /\ UNCHANGED lastNotice
    /\ UNCHANGED <<phase, config, dropdownLoaded, selectedTemplate, promptValue,
                   buttonDisabled, intervalId, debouncePending, optimizedValue,
                   optInFlight, files>>
    /\ UNCHANGED <<tmVars, svcVars, fsVars>>

\* the adapter request of the submit handler settles: the rest of
\* generateFilledTemplate, then createFilledFile up to vault.create
generateDone(resp) ==
    /\ submitPc = "generate"
    /\ IF generationSucceeded(resp)
       THEN /\ submitPc' = "write"
            /\ pipeline' = [pipeline EXCEPT
                              !.section = <<>>,
                              !.prompt = <<>>,
                              !.writeTemplate = selectedTemplate,
                              !.content = Trim(resp.data)]
            /\ stats' = afterGenerate(stats)
            /\ UNCHANGED <<processingStatus, lastNotice>>
       ELSE /\ stats' = finished(catchBlock(stats))
            /\ lastNotice' = "failure"
            /\ processingStatus' = finallyStatus(ERROR)
            /\ submitPc' = afterCatch
            /\ pipeline' = NoPipeline
    /\ UNCHANGED <<phase, config, dropdownLoaded, selectedTemplate, promptValue,
                   buttonDisabled, intervalId, debouncePending, optimizedValue,
                   optInFlight, files>>
    /\ UNCHANGED <<tmVars, svcVars, fsVars>>

\* createFilledFile settles: the success tail of the submit handler
\* (Notice, COMPLETE, close, finally) or its catch and finally
writeDone(ok) ==
    /\ submitPc = "write"
    /\ submitPc' = IF ok THEN "none" ELSE afterCatch
    /\ pipeline' = NoPipeline
    /\ IF ok
       THEN /\ files' = files \cup {[template |-> pipeline.writeTemplate,
                                     content |-> pipeline.content]}
            /\ stats' = finished(successTail(stats))
            /\ lastNotice' = "success"
            /\ phase' = "closed"
            /\ intervalId' = FALSE
            /\ processingStatus' = finallyStatus(COMPLETE)
       ELSE /\ stats' = finished(catchBlock(stats))
            /\ lastNotice' = "failure"
            /\ processingStatus' = finallyStatus(ERROR)
            /\ UNCHANGED <<files, phase, intervalId>>
    /\ UNCHANGED <<config, dropdownLoaded, selectedTemplate, promptValue,
                   buttonDisabled, debouncePending, optimizedValue,
                   optInFlight>>
    /\ UNCHANGED <<tmVars, svcVars, fsVars>>

\* the debounced input listener: promptInput.onChange callback, i.e.
\* updateSubmitButtonState and optimizePrompt up to the adapter request
debounceFire(found) ==
    /\ debouncePending
    /\ debouncePending' = FALSE
    /\ buttonDisabled' = updateSubmitButtonState(selectedTemplate, promptValue)
    /\ IF selectedTemplate = NoTemplate
       THEN UNCHANGED <<optimizedValue, optInFlight, lastNotice>>
       ELSE IF ~found
       THEN /\ lastNotice' = "optfail"
            /\ UNCHANGED <<optimizedValue, optInFlight>>
       ELSE IF ~config.useOptimization \/ ~config.adapterReady
       THEN /\ optimizedValue' = fieldValue(promptValue, FALSE,
                                             Len(optInFlight))
            /\ UNCHANGED <<optInFlight, lastNotice>>
       ELSE /\ Len(optInFlight) < MaxOpt
            /\ optInFlight' = Append(optInFlight, promptValue)
            /\ UNCHANGED <<optimizedValue, lastNotice>>
    /\ UNCHANGED <<phase, config, dropdownLoaded, selectedTemplate, promptValue,
                   processingStatus, intervalId, submitPc, pipeline, files,
                   stats>>
    /\ UNCHANGED <<tmVars, svcVars, fsVars>>

RemoveAt(s, i) == SubSeq(s, 1, i - 1) \o SubSeq(s, i + 1, Len(s))

\* the adapter request of one optimizePrompt call settles: the rest of
\* PromptOptimizer.optimize and the assignment to the textarea
optimizeDone(i, resp) ==
    /\ i \in 1..Len(optInFlight)
    /\ optimizedValue' = fieldValue(optInFlight[i],
                                    resp.success /\ Truthy(resp.data), i - 1)
    /\ optInFlight' = RemoveAt(optInFlight, i)
    /\ UNCHANGED <<phase, config, dropdownLoaded, selectedTemplate, promptValue,
                   processingStatus, buttonDisabled, intervalId,
                   debouncePending, submitPc, pipeline, lastNotice, files,
                   stats>>
    /\ UNCHANGED <<tmVars, svcVars, fsVars>>

\* the events of a session apart from the replies to optimize requests
ModalCore ==
    \/ \E loaded \in BOOLEAN : onOpen(loaded)
    \/ \E t \in Templates : onSelect(t)
    \/ \E v \in Texts : inputEvent(v)
    \/ intervalTick
    \/ onClose
    \/ \E found \in BOOLEAN : submitClick(found)
    \/ \E resp \in Responses : generateDone(resp)
    \/ \E ok \in BOOLEAN : writeDone(ok)
    \/ \E found \in BOOLEAN : debounceFire(found)

ModalNext ==
    \/ ModalCore
    \/ \E i \in 1..MaxOpt, resp \in Responses : optimizeDone(i, resp)

\* ------------------------------------------------------- template manager
MaxTicks == 2      \* clock advances that are explored
MaxMtime == 1      \* modification times a file goes through
Procs == {1, 2}    \* concurrent async callers of the template manager

ScanInterval == 5000

\* Date.now() at construction: far beyond the scan interval
StartNow == 2 * ScanInterval

TickSteps == {ScanInterval \div 2, ScanInterval \div 2 + 1}

MaxNow == StartNow + MaxTicks * (ScanInterval \div 2 + 1)

\* the files the vault may hold, in the order a walk of the root meets them
FileInfo ==
    [fa |-> [path |-> "templates/a.md", dir |-> <<"templates">>, ext |-> "md"],
     fc |-> [path |-> "templates/c.txt", dir |-> <<"templates">>, ext |-> "txt"],
     fb |-> [path |-> "templates/sub/b.md", dir |-> <<"templates", "sub">>,
             ext |-> "md"],
     fd |-> [path |-> "other/d.md", dir |-> <<"other">>, ext |-> "md"]]

WalkOrder == <<"fa", "fc", "fb", "fd">>

AllFiles == {WalkOrder[i] : i \in 1..Len(WalkOrder)}

\* files that come and go; fc and fb exist with the templates folder, fd
\* always
DynFiles == {"fa"}

\* the values templatesPath takes, as folder name sequences
PathDirs ==
    [templates |-> <<"templates">>, other |-> <<"other">>,
     missing |-> <<"missing">>]

Paths == DOMAIN PathDirs

\* the values of the templateExtension setting
Extensions == {"md", "txt"}

IsPrefix(s, t) == Len(s) <= Len(t) /\ SubSeq(t, 1, Len(s)) = s

\* mtime of a file in vault v, 0 when it does not exist
Mtime(v, f) ==
    IF f \in DynFiles THEN v.mtime[f]
    ELSE IF f \in {"fc", "fb"} THEN (IF v.folder THEN 1 ELSE 0)
    ELSE 1

\* vault.getAbstractFileByPath(path) instanceof TFolder
IsFolder(v, p) ==
    CASE p = "templates" -> v.folder
      [] p = "other" -> TRUE
      [] OTHER -> FALSE

\* types/index.ts isTemplate
isTemplate(f) ==
    FileInfo[f].ext = "md" /\ IsPrefix(<<"templates">>, FileInfo[f].dir)

\* TemplateManager.hasValidExtension
hasValidExtension(f) == FileInfo[f].ext = "md"

\* TemplateManager.isValidTemplate
isValidTemplate(f) == isTemplate(f) /\ hasValidExtension(f)

\* the files a recursive walk of folder p meets in vault v, in order
Walk(v, p) ==
    SelectSeq(WalkOrder,
              LAMBDA f : Mtime(v, f) > 0 /\ IsPrefix(PathDirs[p], FileInfo[f].dir))

\* the files of that walk for which scanFolder awaits createTemplate
WalkTemplates(v, p) == SelectSeq(Walk(v, p), isValidTemplate)

SeqToSet(s) == {s[i] : i \in 1..Len(s)}

\* TemplateManager.createTemplate
createTemplate(v, f) == [path |-> FileInfo[f].path, mtime |-> Mtime(v, f)]

EmptyMap == [k \in {} |-> k]

\* Map.prototype.set
MapSet(m, k, e) == [x \in (DOMAIN m) \cup {k} |-> IF x = k THEN e ELSE m[x]]

\* the cleanup loop of scanTemplates: delete every key not in currentTemplates
cleanupCache(m, currentTemplates) ==
    [x \in (DOMAIN m) \cap currentTemplates |-> m[x]]

\* Array.from(this.templateCache.values())
CacheValues(m) == {m[k] : k \in DOMAIN m}

NoCall == [t |-> 0, scan |-> "none", todo |-> <<>>, currentTemplates |-> {}]

\* what app.vault.read gives loadTemplate: the content of the file, or a
\* rejection; NoRead for the methods that read no file
NoRead == [ok |-> FALSE, content |-> <<>>]

ReadOutcomes == {[ok |-> TRUE, content |-> c] : c \in Texts} \cup {NoRead}

Ops ==
    {[op |-> "getTemplates", path |-> "none", read |-> NoRead]}
        \cup {[op |-> o, path |-> FileInfo[f].path, read |-> NoRead] :
                o \in {"getTemplate", "templateExists"}, f \in {"fa"}}
        \cup {[op |-> "loadTemplate", path |-> FileInfo[f].path, read |-> r] :
                f \in {"fa"}, r \in ReadOutcomes}

NoAnswer ==
    [op |-> "none", path |-> "none", read |-> NoRead, t |-> 0,
     raised |-> "none", value |-> {}, found |-> FALSE, content |-> <<>>]

InitTM ==
    /\ now = StartNow
    /\ vault \in {[folder |-> TRUE, mtime |-> [f \in DynFiles |-> 1]],
                  [folder |-> FALSE, mtime |-> [f \in DynFiles |-> 0]]}
    /\ templatesPath = "templates"
    /\ templateCache = EmptyMap
    /\ lastScanTime = 0
    /\ pc = [p \in Procs |-> "idle"]
    /\ call = [p \in Procs |-> NoCall]
    /\ lastAnswer = NoAnswer
    /\ resetPending = FALSE
    /\ templateExtension \in Extensions

scanNeededAtInterval(t, last) == t - last >= ScanInterval

\* the refresh test of updateTemplatesCacheIfNeeded
scanNeeded(t, last) == t - last > ScanInterval

missingFolderScanClears(m) == EmptyMap

\* scanTemplates when the configured path is not a folder: the new cache
missingFolderScan(m) == m

\* a caller enters getTemplates / getTemplate / templateExists and runs
\* updateTemplatesCacheIfNeeded up to its first suspension.  The three
\* methods share this prefix, so which one it is shows only in answerCall.
\* Callers are interchangeable: the lowest idle one takes the call
callStart(p) ==
    /\ pc[p] = "idle"
    /\ \A q \in Procs : q < p => pc[q] # "idle"
    /\ resetPending' = FALSE
    /\ IF ~scanNeeded(now, lastScanTime)
       THEN /\ pc' = [pc EXCEPT ![p] = "answer"]
            /\ call' = [call EXCEPT ![p] =
                          [NoCall EXCEPT !.t = now]]
            /\ UNCHANGED templateCache
       ELSE IF ~IsFolder(vault, templatesPath)
       THEN /\ pc' = [pc EXCEPT ![p] = "stamp"]
            /\ call' = [call EXCEPT ![p] =
                          [NoCall EXCEPT !.t = now, !.scan = "missing"]]
            /\ templateCache' = missingFolderScan(templateCache)
       ELSE /\ pc' = [pc EXCEPT ![p] = "walk"]
            /\ call' = [call EXCEPT ![p] =
                          [NoCall EXCEPT !.t = now, !.scan = "walk",
                                         !.todo = WalkTemplates(vault, templatesPath)]]
            /\ UNCHANGED templateCache
    /\ UNCHANGED <<now, vault, templatesPath, lastScanTime, lastAnswer>>
    /\ UNCHANGED <<modalVars, svcVars, fsVars, templateExtension>>

\* scanFolder resumes after await createTemplate(child)
walkStep(p) ==
    /\ pc[p] = "walk"
    /\ call[p].todo # <<>>
    /\ LET f == Head(call[p].todo)
           template == createTemplate(vault, f)
       IN /\ call' = [call EXCEPT ![p].todo = Tail(@),
                                  ![p].currentTemplates = @ \cup {template.path}]
          /\ templateCache' = MapSet(templateCache, template.path, template)
    /\ UNCHANGED <<now, vault, templatesPath, lastScanTime, pc, lastAnswer,
                   resetPending>>
    /\ UNCHANGED <<modalVars, svcVars, fsVars, templateExtension>>

\* scanTemplates resumes after await scanFolder: the cleanup loop
cleanup(p) ==
    /\ pc[p] = "walk"
    /\ call[p].todo = <<>>
    /\ templateCache' = cleanupCache(templateCache, call[p].currentTemplates)
    /\ pc' = [pc EXCEPT ![p] = "stamp"]
    /\ call' = [call EXCEPT ![p].currentTemplates = {}]
    /\ UNCHANGED <<now, vault, templatesPath, lastScanTime, lastAnswer,
                   resetPending>>
    /\ UNCHANGED <<modalVars, svcVars, fsVars, templateExtension>>

lastScanTimeAfterRaiseStamped(last, t) == t

\* lastScanTime after scanTemplates raised, t being the time the call read:
\* the assignment after the await is skipped
lastScanTimeAfterRaise(last, t) == last

\* the walk raises: scanTemplates rethrows FILE_SYSTEM_ERROR to the caller
scanRaise(p) ==
    /\ pc[p] = "walk"
    /\ pc' = [pc EXCEPT ![p] = "idle"]
    /\ call' = [call EXCEPT ![p] = NoCall]
    /\ lastAnswer' = [NoAnswer EXCEPT !.op = "any", !.t = call[p].t,
                                       !.raised = "FILE_SYSTEM_ERROR"]
    /\ lastScanTime' = lastScanTimeAfterRaise(lastScanTime, call[p].t)
    /\ UNCHANGED <<now, vault, templatesPath, templateCache, resetPending>>
    /\ UNCHANGED <<modalVars, svcVars, fsVars, templateExtension>>

\* updateTemplatesCacheIfNeeded resumes after await scanTemplates
stamp(p) ==
    /\ pc[p] = "stamp"
    /\ lastScanTime' = call[p].t
    /\ pc' = [pc EXCEPT ![p] = "answer"]
    /\ UNCHANGED <<now, vault, templatesPath, templateCache, call, lastAnswer,
                   resetPending>>
    /\ UNCHANGED <<modalVars, svcVars, fsVars, templateExtension>>

\* an outcome of a public method: the condition it raises, the templates
\* it returns, the boolean of templateExists, the text of loadTemplate
Outcome(raised, value, found, content) ==
    [raised |-> raised, value |-> value, found |-> found, content |-> content]

\* TemplateManager.getTemplate after its refresh
getTemplate(path, m) ==
    IF path \in DOMAIN m
    THEN Outcome("none", {m[path]}, FALSE, <<>>)
    ELSE Outcome("NOT_FOUND", {}, FALSE, <<>>)

validateTemplateContentAny(content) == Outcome("none", {}, FALSE, content)

\* TemplateManager.validateTemplateContent
validateTemplateContent(content) ==
    IF ~Truthy(content) \/ Len(Trim(content)) = 0
    THEN Outcome("INVALID_CONTENT", {}, FALSE, <<>>)
    ELSE Outcome("none", {}, FALSE, content)

\* TemplateManager.loadTemplate after the refresh: whatever is raised inside
\* its try block is caught and raised again as INVALID_CONTENT
loadTemplate(path, m, read) ==
    LET inner == IF getTemplate(path, m).raised # "none"
                 THEN getTemplate(path, m)
                 ELSE IF ~read.ok
                 THEN Outcome("READ_FAILED", {}, FALSE, <<>>)
                 ELSE validateTemplateContent(read.content)
    IN  IF inner.raised # "none"
        THEN Outcome("INVALID_CONTENT", {}, FALSE, <<>>)
        ELSE inner

\* what the public method does once the refresh is done
Result(o, m) ==
    CASE o.op = "getTemplates" -> Outcome("none", CacheValues(m), FALSE, <<>>)
      [] o.op = "getTemplate" -> getTemplate(o.path, m)
      [] o.op = "loadTemplate" -> loadTemplate(o.path, m, o.read)
      [] OTHER -> Outcome("none", {}, o.path \in DOMAIN m, <<>>)

\* the public method resumes after await updateTemplatesCacheIfNeeded
answerCall(p, o) ==
    /\ pc[p] = "answer"
    /\ lastAnswer' = [op |-> o.op, path |-> o.path, read |-> o.read,
                      t |-> call[p].t] @@ Result(o, templateCache)
    /\ pc' = [pc EXCEPT ![p] = "idle"]
    /\ call' = [call EXCEPT ![p] = NoCall]
    /\ UNCHANGED <<now, vault, templatesPath, templateCache, lastScanTime,
                   resetPending>>
    /\ UNCHANGED <<modalVars, svcVars, fsVars, templateExtension>>

\* TemplateManager.clearCache
clearCache ==
    /\ templateCache' = EmptyMap
    /\ lastScanTime' = 0
    /\ resetPending' = TRUE
    /\ lastAnswer' = NoAnswer
    /\ UNCHANGED <<now, vault, templatesPath, pc, call>>
    /\ UNCHANGED <<modalVars, svcVars, fsVars, templateExtension>>

\* TemplateManager.setTemplatesPath
setTemplatesPath(path) ==
    /\ templatesPath' = path
    /\ templateCache' = EmptyMap
    /\ lastScanTime' = 0
    /\ resetPending' = TRUE
    /\ lastAnswer' = NoAnswer
    /\ UNCHANGED <<now, vault, pc, call>>
    /\ UNCHANGED <<modalVars, svcVars, fsVars, templateExtension>>

\* time passes between tasks; a suspended scan resumes on the microtask
\* queue, within the millisecond
tick(d) ==
    /\ \A p \in Procs : pc[p] = "idle"
    /\ now + d <= MaxNow
    /\ now' = now + d
    /\ UNCHANGED <<vault, templatesPath, templateCache, lastScanTime, pc, call,
                   lastAnswer, resetPending>>
    /\ UNCHANGED <<modalVars, svcVars, fsVars, templateExtension>>

\* the vault changes between tasks: a template file is created or modified
vaultWrite(f) ==
    /\ \A p \in Procs : pc[p] = "idle"
    /\ vault.folder
    /\ vault.mtime[f] < MaxMtime
    /\ vault' = [vault EXCEPT !.mtime[f] = @ + 1]
    /\ UNCHANGED <<now, templatesPath, templateCache, lastScanTime, pc, call,
                   lastAnswer, resetPending>>
    /\ UNCHANGED <<modalVars, svcVars, fsVars, templateExtension>>

\* a template file is deleted
vaultDelete(f) ==
    /\ \A p \in Procs : pc[p] = "idle"
    /\ vault.mtime[f] > 0
    /\ vault' = [vault EXCEPT !.mtime[f] = 0]
    /\ UNCHANGED <<now, templatesPath, templateCache, lastScanTime, pc, call,
                   lastAnswer, resetPending>>
    /\ UNCHANGED <<modalVars, svcVars, fsVars, templateExtension>>

\* the templates folder is deleted with its files, or created empty
vaultFolder ==
    /\ \A p \in Procs : pc[p] = "idle"
    /\ vault' = [folder |-> ~vault.folder, mtime |-> [f \in DynFiles |-> 0]]
    /\ UNCHANGED <<now, templatesPath, templateCache, lastScanTime, pc, call,
                   lastAnswer, resetPending>>
    /\ UNCHANGED <<modalVars, svcVars, fsVars, templateExtension>>

TMNext ==
    \/ \E p \in Procs : callStart(p)
    \/ \E p \in Procs : walkStep(p)
    \/ \E p \in Procs : cleanup(p)
    \/ \E p \in Procs : scanRaise(p)
    \/ \E p \in Procs : stamp(p)
    \/ \E p \in Procs, o \in Ops : answerCall(p, o)
    \/ clearCache
    \/ \E path \in Paths : setTemplatesPath(path)
    \/ \E d \in TickSteps : tick(d)
    \/ \E f \in DynFiles : vaultWrite(f)
    \/ \E f \in DynFiles : vaultDelete(f)
    \/ vaultFolder

\* ------------------------------------------------------------ LLM services
MaxAdapters == 2   \* OpenRouterAdapter objects constructed in one run

\* the characters of a reply besides " " and "a"
Quote == "\""
Newline == "\n"
Colon == ":"
\* one of the lead-ins Here's / This is / I've created / Here is
LeadIn == "H"

\* the texts an adapter answers with
ReplyTexts ==
    {<<>>, <<" ">>, <<"a">>, <<" ", "a">>, <<Quote, "a", Quote>>,
     <<Quote, Quote>>, <<LeadIn, Colon, "a">>, <<LeadIn, Colon>>,
     <<"a", Newline, "a">>, <<LeadIn, Colon, " ", Quote, "a", Quote>>,
     <<Quote, Quote, "a", Quote>>, <<Quote, " ", Quote>>,
     <<"a", Colon, "a">>, <<LeadIn, Colon, "a", Colon, "a">>}

\* the template contents handed to the services
Contents == {<<>>, ObjectText}

OpenRouter == "openrouter"
LMStudio == "lmstudio"
\* the provider values a stored configuration may hold
Providers == {OpenRouter, LMStudio, "other"}

\* apiKey and apiUrl of a configuration; "" stands for absent or empty
ApiKeys == {"", "key1", "key2"}
ApiUrls == {"", "url1"}

\* temperatures in tenths: 0.7 is 7
DefaultTemperature == 7
DefaultMaxTokens == 2048

\* temperature, maxTokens and model of DEFAULT_SETTINGS.llm
DefaultOptions ==
    [temperature |-> 7, maxTokens |-> 2048,
     model |-> "anthropic/claude-3.5-haiku"]

\* the generation settings a user configures: temperatures 0 and 0.5
ConfiguredOptions ==
    {[temperature |-> 0, maxTokens |-> 1, model |-> "gpt-4"],
     [temperature |-> 5, maxTokens |-> 4096, model |-> "gpt-3.5-turbo"]}

LLMConfig(pr, k, u, o) ==
    [provider |-> pr, apiKey |-> k, apiUrl |-> u,
     temperature |-> o.temperature, maxTokens |-> o.maxTokens,
     model |-> o.model]

\* the stored configurations: every provider, key and URL with the default
\* generation settings, and every generation setting with one working
\* OpenRouter account
Configs ==
    {LLMConfig(pr, k, u, DefaultOptions) :
        pr \in Providers, k \in ApiKeys, u \in ApiUrls}
      \cup {LLMConfig(OpenRouter, "key1", "", o) : o \in ConfiguredOptions}

NoAdapter == [id |-> 0, apiKey |-> "", apiUrl |-> ""]

\* the apiUrl field initializer of OpenRouterAdapter
DefaultApiUrl == "https://openrouter.ai/api/v1/chat/completions"

\* new OpenRouterAdapter(): the n-th object constructed
NewAdapter(n) == [id |-> n, apiKey |-> "", apiUrl |-> DefaultApiUrl]

\* OpenRouterAdapter.configure
configure(a, cfg) ==
    [a EXCEPT !.apiKey = cfg.apiKey,
              !.apiUrl = IF cfg.apiUrl # "" THEN cfg.apiUrl ELSE a.apiUrl]

initializeAdapterKeepsOld(cfg, old, n) ==
    IF cfg.provider = OpenRouter
    THEN configure(NewAdapter(n), cfg)
    ELSE old

\* LLMService.initializeAdapter: the adapter held afterwards, when n is the
\* number of the next object constructed
initializeAdapter(cfg, old, n) ==
    IF cfg.provider = OpenRouter
    THEN configure(NewAdapter(n), cfg)
    ELSE NoAdapter

\* a count the usage object of a reply does not carry
Missing == -1

\* a reply without usage, or without any count in it
NoUsage ==
    [prompt_tokens |-> Missing, completion_tokens |-> Missing,
     total_tokens |-> Missing]

\* the usage objects of replies: absent, complete, and with counts missing
Usages ==
    {NoUsage,
     [prompt_tokens |-> 1, completion_tokens |-> 2, total_tokens |-> 3],
     [prompt_tokens |-> 1, completion_tokens |-> Missing,
      total_tokens |-> Missing]}

\* what the HTTP request of the adapter comes to
HttpOutcomes ==
    {[kind |-> "rejected", message |-> m, text |-> <<>>, usage |-> NoUsage] :
        m \in {"", "timeout"}}
      \cup {[kind |-> k, message |-> "", text |-> <<>>, usage |-> NoUsage] :
        k \in {"status", "unparsable", "nochoices", "emptychoices"}}
      \cup {[kind |-> "ok", message |-> "", text |-> t, usage |-> u] :
        t \in ReplyTexts, u \in Usages}

NoHttp == [kind |-> "none", message |-> "", text |-> <<>>, usage |-> NoUsage]

TokensRaw(usage) ==
    [input |-> usage.prompt_tokens, output |-> usage.completion_tokens,
     total |-> usage.total_tokens]

\* the tokens object of a successful result: x || 0 for each count
Tokens(usage) ==
    [input |-> IF usage.prompt_tokens \in {Missing, 0} THEN 0
               ELSE usage.prompt_tokens,
     output |-> IF usage.completion_tokens \in {Missing, 0} THEN 0
                ELSE usage.completion_tokens,
     total |-> IF usage.total_tokens \in {Missing, 0} THEN 0
               ELSE usage.total_tokens]

\* the tokens object of a failure result
ZeroTokens == [input |-> 0, output |-> 0, total |-> 0]

\* an AIResponse object: the properties its literal sets and their values
\* (data <<>> and error "" where the property is not set)
AIResponse(keys, success, data, error, tokens) ==
    [keys |-> keys, success |-> success, data |-> data, error |-> error,
     tokens |-> tokens]

\* no result: the call rejected or has not settled
NoResponse == AIResponse({}, FALSE, <<>>, "", ZeroTokens)

\* the message of the error thrown inside the try block of generateResponse
thrownMessage(http) ==
    CASE http.kind = "rejected" -> http.message
      [] http.kind = "status" -> "OpenRouter API Error"
      [] http.kind = "unparsable" -> "Unexpected token"
      [] OTHER -> "No choices found in OpenRouter response."

\* how a call of the adapter ends: the message of the error it rejects
\* with ("" when it resolves) and the AIResponse it resolves to
AdapterOutcome(thrown, response) == [thrown |-> thrown, response |-> response]

ApiKeyMissing == "OpenRouter API key is not configured."

generateResponseRethrows(http) ==
    IF http.kind = "ok"
    THEN AdapterOutcome("",
            AIResponse({"success", "data", "tokens"}, TRUE, http.text, "",
                       Tokens(http.usage)))
    ELSE AdapterOutcome("Transport error", NoResponse)

\* OpenRouterAdapter.generateResponse once the request has settled
generateResponse(http) ==
    IF http.kind = "ok"
    THEN AdapterOutcome("",
            AIResponse({"success", "data", "tokens"}, TRUE, http.text, "",
                       Tokens(http.usage)))
    ELSE AdapterOutcome("",
            AIResponse({"success", "error", "tokens"}, FALSE, <<>>,
                       IF thrownMessage(http) # "" THEN thrownMessage(http)
                       ELSE "Unknown error occurred.",
                       ZeroTokens))

Min(S) == CHOOSE x \in S : \A y \in S : x <= y

\* the positions where /"([^"]+)"/ can match: an opening quote, at least one
\* other character, and the next quote
QuoteStarts(s) ==
    {i \in 1..Len(s) :
        /\ s[i] = Quote
        /\ \E j \in (i + 2)..Len(s) :
              /\ s[j] = Quote
              /\ \A k \in (i + 1)..(j - 1) : s[k] # Quote}

\* response.split('\n')[0]
FirstParagraph(s) ==
    IF \E i \in 1..Len(s) : s[i] = Newline
    THEN SubSeq(s, 1, Min({i \in 1..Len(s) : s[i] = Newline}) - 1)
    ELSE s

\* replace(/^(Here's|This is|I've created|Here is).*?:/i, '')
StripLeadIn(s) ==
    IF s # <<>> /\ s[1] = LeadIn /\ \E i \in 2..Len(s) : s[i] = Colon
    THEN SubSeq(s, Min({i \in 2..Len(s) : s[i] = Colon}) + 1, Len(s))
    ELSE s

cleanResponseFirstLine(response) ==
    Trim(StripLeadIn(FirstParagraph(response)))

\* PromptOptimizer.cleanResponse
cleanResponse(response) ==
    IF QuoteStarts(response) # {}
    THEN LET i == Min(QuoteStarts(response))
             j == Min({k \in (i + 1)..Len(response) : response[k] = Quote})
         IN  Trim(SubSeq(response, i + 1, j - 1))
    ELSE Trim(StripLeadIn(FirstParagraph(response)))

\* the fixed sentence of the optimization request
OptimizeSentence == "P"

\* the arguments optimize passes to generateFilledTemplate
optimizeRequest(userPrompt) ==
    [templateContent |-> <<OptimizeSentence, Quote>> \o userPrompt \o <<Quote>>,
     userPrompt |-> <<>>]

\* AIModelMap[AIProvider.OpenRouter] api names
OpenRouterModels == {"gpt-3.5-turbo", "gpt-4"}

NotInitialized == "LLM Adapter is not initialized."
GenerationFailed == "Failed to generate content"

\* how a call of a service method ends: the message it raises ("" when it
\* returns) and the text it returns
Ended(raised, text) == [raised |-> raised, text |-> text]

generateFilledTemplateUntested(out) ==
    IF out.thrown # ""
    THEN Ended(GenerationFailed, <<>>)
    ELSE Ended("", Trim(out.response.data))

\* LLMService.generateFilledTemplate after the adapter call has settled
generateFilledTemplate(out) ==
    IF out.thrown # "" \/ ~out.response.success \/ ~Truthy(out.response.data)
    THEN Ended(GenerationFailed, <<>>)
    ELSE Ended("", Trim(out.response.data))

optimizeDisabledTrimmed(userPrompt) == Trim(userPrompt)

\* PromptOptimizer.optimize when optimization is off
optimizeDisabled(userPrompt) == userPrompt

optimizeCatchRaises(userPrompt, gen) == gen

\* the catch block of PromptOptimizer.optimize
optimizeCatch(userPrompt, gen) == Ended("", userPrompt)

\* PromptOptimizer.optimize after await generateFilledTemplate
optimize(userPrompt, gen) ==
    IF gen.raised # ""
    THEN optimizeCatch(userPrompt, gen)
    ELSE Ended("", cleanResponse(gen.text))

\* OpenRouterAdapter.testConnection after its generateResponse call
adapterTestConnection(out) ==
    out.thrown = "" /\ out.response.success /\ Truthy(out.response.data)

getAvailableModelsDefault(a) == OpenRouterModels

\* LLMService.getAvailableModels
getAvailableModels(a) == IF a = NoAdapter THEN {} ELSE OpenRouterModels

NoRequest == [templateContent |-> <<>>, userPrompt |-> <<>>]

NoOptions == [temperature |-> 0, maxTokens |-> 0, model |-> ""]

\* the options argument generateFilledTemplate builds for
\* adapter.generateResponse
generateOptions(cfg) ==
    [temperature |-> IF cfg.temperature # 0 THEN cfg.temperature
                     ELSE DefaultTemperature,
     maxTokens |-> IF cfg.maxTokens # 0 THEN cfg.maxTokens
                   ELSE DefaultMaxTokens,
     model |-> cfg.model]

\* no service call has run
NoSvc ==
    [fn |-> "none", pc |-> "idle", userPrompt |-> <<>>, templateContent |-> <<>>,
     hadAdapter |-> FALSE, request |-> NoRequest, options |-> NoOptions,
     http |-> NoHttp,
     out |-> AdapterOutcome("", NoResponse), raised |-> "", text |-> <<>>,
     flag |-> FALSE, models |-> {}, optCalls |-> 0, genCalls |-> 0,
     adapterCalls |-> 0, httpRequests |-> 0]

\* a call of fn enters the service
Entered(fn, userPrompt, templateContent) ==
    [NoSvc EXCEPT !.fn = fn, !.userPrompt = userPrompt,
                  !.templateContent = templateContent,
                  !.hadAdapter = adapter # NoAdapter]

\* the call returns or raises
Returned(b, end) ==
    [b EXCEPT !.pc = "idle", !.raised = end.raised, !.text = end.text]

finishReenters(b, out) ==
    IF b.fn = "optimize" /\ generateFilledTemplate(out).raised = ""
    THEN [b EXCEPT !.genCalls = @ + 1, !.adapterCalls = @ + 1,
                   !.httpRequests = @ + 1]
    ELSE Returned([b EXCEPT !.out = out],
                  optimize(b.userPrompt, generateFilledTemplate(out)))

\* the adapter call of the running method has settled with out: the rest
\* of the method
finish(b, out) ==
    LET c == [b EXCEPT !.out = out]
        gen == generateFilledTemplate(out)
    IN  CASE b.fn = "optimize" -> Returned(c, optimize(b.userPrompt, gen))
          [] b.fn = "generate" -> Returned(c, gen)
          [] OTHER -> [c EXCEPT !.pc = "idle",
                                !.flag = adapterTestConnection(out)]

\* the method calls the adapter: generateResponse rejects at once without
\* an API key, and sends the HTTP request otherwise
callAdapter(b) ==
    IF adapter.apiKey = ""
    THEN finish([b EXCEPT !.adapterCalls = @ + 1],
                AdapterOutcome(ApiKeyMissing, NoResponse))
    ELSE [b EXCEPT !.adapterCalls = @ + 1, !.httpRequests = @ + 1,
                   !.pc = "http"]

\* LLMService.generateFilledTemplate up to its await
enterGenerate(b, request) ==
    LET c == [b EXCEPT !.genCalls = @ + 1, !.request = request]
    IN  IF adapter = NoAdapter
        THEN IF b.fn = "optimize"
             THEN Returned(c, optimize(b.userPrompt, Ended(NotInitialized, <<>>)))
             ELSE Returned(c, Ended(NotInitialized, <<>>))
        ELSE callAdapter([c EXCEPT !.options = generateOptions(llmConfig)])

InitSvc ==
    /\ llmConfig \in Configs
    /\ adapter = initializeAdapter(llmConfig, NoAdapter, 1)
    /\ adapterCount = IF llmConfig.provider = OpenRouter THEN 1 ELSE 0
    /\ useOptimization \in BOOLEAN
    /\ svc = NoSvc

\* LLMService.updateSettings
updateSettings(newConfig) ==
    /\ adapterCount < MaxAdapters
    /\ llmConfig' = newConfig
    /\ adapter' = initializeAdapter(newConfig, adapter, adapterCount + 1)
    /\ adapterCount' = IF newConfig.provider = OpenRouter
                       THEN adapterCount + 1 ELSE adapterCount
    /\ UNCHANGED <<useOptimization, svc>>
    /\ UNCHANGED <<modalVars, tmVars, fsVars>>

\* PromptOptimizer.optimize up to its first await
callOptimize(userPrompt, templateContent) ==
    /\ svc.pc = "idle"
    /\ LET b == [Entered("optimize", userPrompt, templateContent)
                    EXCEPT !.optCalls = 1]
       IN  svc' = IF ~useOptimization
                  THEN Returned(b, Ended("", optimizeDisabled(userPrompt)))
                  ELSE enterGenerate(b, optimizeRequest(userPrompt))
    /\ UNCHANGED <<llmConfig, adapter, adapterCount, useOptimization>>
    /\ UNCHANGED <<modalVars, tmVars, fsVars>>

\* LLMService.generateFilledTemplate called directly
callGenerate(templateContent, userPrompt) ==
    /\ svc.pc = "idle"
    /\ svc' = enterGenerate(Entered("generate", userPrompt, templateContent),
                            [templateContent |-> templateContent,
                             userPrompt |-> userPrompt])
    /\ UNCHANGED <<llmConfig, adapter, adapterCount, useOptimization>>
    /\ UNCHANGED <<modalVars, tmVars, fsVars>>

\* LLMService.testConnection up to its await
callTestConnection ==
    /\ svc.pc = "idle"
    /\ LET b == Entered("testConnection", <<>>, <<>>)
       IN  svc' = IF adapter = NoAdapter THEN b ELSE callAdapter(b)
    /\ UNCHANGED <<llmConfig, adapter, adapterCount, useOptimization>>
    /\ UNCHANGED <<modalVars, tmVars, fsVars>>

\* LLMService.getAvailableModels
callGetAvailableModels ==
    /\ svc.pc = "idle"
    /\ svc' = [Entered("getAvailableModels", <<>>, <<>>)
                  EXCEPT !.models = getAvailableModels(adapter)]
    /\ UNCHANGED <<llmConfig, adapter, adapterCount, useOptimization>>
    /\ UNCHANGED <<modalVars, tmVars, fsVars>>

\* PromptOptimizer.combine
callCombine(templateContent, optimizedPrompt) ==
    /\ svc.pc = "idle"
    /\ svc' = [Entered("combine", optimizedPrompt, templateContent)
                  EXCEPT !.text = combine(templateContent, optimizedPrompt)]
    /\ UNCHANGED <<llmConfig, adapter, adapterCount, useOptimization>>
    /\ UNCHANGED <<modalVars, tmVars, fsVars>>

\* the HTTP request of the adapter settles
httpDone(http) ==
    /\ svc.pc = "http"
    /\ svc' = finish([svc EXCEPT !.http = http], generateResponse(http))
    /\ UNCHANGED <<llmConfig, adapter, adapterCount, useOptimization>>
    /\ UNCHANGED <<modalVars, tmVars, fsVars>>

\* AIModelUtils.getModelsByProvider(value)[0]?.apiName || ''
providerDefaultModel(value) ==
    CASE value = OpenRouter -> "anthropic/claude-3.5-haiku"
      [] value = LMStudio -> "default"
      [] OTHER -> ""

\* the provider dropdown of the settings tab changes: the handler assigns
\* to plugin.settings.llm, the object LLMService.config refers to, and
\* saves the settings
providerChange(value) ==
    /\ value # llmConfig.provider
    /\ llmConfig' = [llmConfig EXCEPT !.provider = value,
                                      !.model = providerDefaultModel(value)]
    /\ UNCHANGED <<adapter, adapterCount, useOptimization, svc>>
    /\ UNCHANGED <<modalVars, tmVars, fsVars>>

\* the API key field of the settings tab changes
apiKeyChange(value) ==
    /\ value # llmConfig.apiKey
    /\ llmConfig' = [llmConfig EXCEPT !.apiKey = value]
    /\ UNCHANGED <<adapter, adapterCount, useOptimization, svc>>
    /\ UNCHANGED <<modalVars, tmVars, fsVars>>

\* the services as the plugin drives them: what the settings tab does to
\* the configuration, and generation calls
PluginNext ==
    \/ \E value \in {OpenRouter, LMStudio} : providerChange(value)
    \/ \E value \in ApiKeys : apiKeyChange(value)
    \/ \E t \in Contents, p \in Texts : callGenerate(t, p)
    \/ \E h \in HttpOutcomes : httpDone(h)

SvcNext ==
    \/ \E c \in Configs : updateSettings(c)
    \/ \E p \in Texts, t \in Contents : callOptimize(p, t)
    \/ \E t \in Contents, p \in Texts : callGenerate(t, p)
    \/ callTestConnection
    \/ callGetAvailableModels
    \/ \E t \in Contents \cup Texts, p \in Texts : callCombine(t, p)
    \/ \E h \in HttpOutcomes : httpDone(h)

\* ------------------------------------------------------------ file service
MaxStamp == 1   \* milliseconds the clock advances

Stamps == 0..MaxStamp

\* Template.name of the templates that are filled
TemplateNames == {"a", "b"}

\* the filled contents handed to createFilledFile
FilledContents == {<<>>, <<"a">>}

\* the content of a file some other writer put into the output folder
ExternalText == <<"e">>

\* the paths createFilledFile can compute: template name and timestamp; the
\* folder and the extension are the same for all of them
FileKeys == TemplateNames \X Stamps

NoFile == [exists |-> FALSE, content |-> <<>>]

File(content) == [exists |-> TRUE, content |-> content]

\* the constructor: settings.paths.templateExtension || 'md'
fileExtension(ext) == IF ext # "" THEN ext ELSE "md"

\* `${template.name}-${timestamp}.${this.templateExtension}`; the timestamp
\* is the ISO form of the clock with ':' and '.' replaced, one name per
\* millisecond
fileName(name, ms, ext) == [name |-> name, stamp |-> ms, ext |-> ext]

NoName == [name |-> "", stamp |-> 0, ext |-> ""]

FileExists == "File already exists"
FolderFailed == "createFolder failed"
CreateFailed == "create failed"

\* no createFilledFile call has run
NoSave ==
    [pc |-> "idle", template |-> "", content |-> <<>>, named |-> FALSE,
     file |-> NoName, io |-> "none", raised |-> "", notices |-> {},
     reached |-> IDLE, status |-> IDLE, closed |-> FALSE]

handlerEndIgnoresError(b) ==
    [b EXCEPT !.pc = "idle", !.notices = @ \cup {"success"},
              !.reached = COMPLETE, !.status = finallyStatus(COMPLETE),
              !.closed = TRUE]

\* the submit handler after await createFilledFile: success Notice,
\* COMPLETE and close, or the catch block; then the finally block
handlerEnd(b) ==
    IF b.raised = ""
    THEN [b EXCEPT !.pc = "idle", !.notices = @ \cup {"success"},
                   !.reached = COMPLETE, !.status = finallyStatus(COMPLETE),
                   !.closed = TRUE]
    ELSE [b EXCEPT !.pc = "idle", !.notices = @ \cup {"failure"},
                   !.reached = ERROR, !.status = finallyStatus(ERROR)]

\* createFilledFile raises message after showing notice
raises(b, message, notice) ==
    handlerEnd([b EXCEPT !.raised = message, !.notices = @ \cup {notice}])

existingFileUnseen(held, key) == FALSE

\* getAbstractFileByPath(filePath) is truthy
existingFile(held, key) == held[key].exists

\* createFilledFile from the timestamp to await vault.create, once the
\* folder is at hand
nameAndCreate(b, held, ms, ext) ==
    LET c == [b EXCEPT !.named = TRUE,
                       !.file = fileName(b.template, ms, fileExtension(ext))]
    IN  IF existingFile(held, <<b.template, ms>>)
        THEN raises(c, FileExists, "exists")
        ELSE [c EXCEPT !.pc = "create"]

InitFS ==
    /\ fsNow = 0
    /\ outputFolder \in BOOLEAN
    /\ outputFiles = [k \in FileKeys |-> NoFile]
    /\ save = NoSave

\* the submit handler calls createFilledFile(template, content): the call
\* up to its first await
saveStart(name, content) ==
    /\ save.pc = "idle"
    /\ LET b == [NoSave EXCEPT !.template = name, !.content = content,
                              !.status = PROCESSING]
       IN  save' = IF outputFolder
                   THEN nameAndCreate(b, outputFiles, fsNow, templateExtension)
                   ELSE [b EXCEPT !.pc = "folder"]
    /\ UNCHANGED <<fsNow, outputFolder, outputFiles>>
    /\ UNCHANGED <<modalVars, tmVars, svcVars>>

\* vault.createFolder settles
folderDone(ok) ==
    /\ save.pc = "folder"
    /\ IF ok
       THEN /\ outputFolder' = TRUE
            /\ save' = nameAndCreate(
                          [save EXCEPT !.notices = @ \cup {"created folder"}],
                          outputFiles, fsNow, templateExtension)
       ELSE /\ save' = raises([save EXCEPT !.io = "folder"], FolderFailed,
                              "folder failed")
            /\ UNCHANGED outputFolder
    /\ UNCHANGED <<fsNow, outputFiles>>
    /\ UNCHANGED <<modalVars, tmVars, svcVars>>

\* vault.create settles; it rejects when the path has been taken meanwhile
createDone(ok) ==
    /\ save.pc = "create"
    /\ LET key == <<save.file.name, save.file.stamp>>
       IN  /\ ok => ~outputFiles[key].exists
           /\ IF ok
              THEN /\ outputFiles' =
                        [outputFiles EXCEPT ![key] = File(save.content)]
                   /\ save' = handlerEnd(
                                 [save EXCEPT !.notices = @ \cup {"saved"}])
              ELSE /\ save' = raises([save EXCEPT !.io = "create"],
                                     CreateFailed, "save failed")
                   /\ UNCHANGED outputFiles
    /\ UNCHANGED <<fsNow, outputFolder>>
    /\ UNCHANGED <<modalVars, tmVars, svcVars>>

\* another writer puts a file into the output folder
externalCreate(key) ==
    /\ outputFolder
    /\ ~outputFiles[key].exists
    /\ outputFiles' = [outputFiles EXCEPT ![key] = File(ExternalText)]
    /\ UNCHANGED <<fsNow, outputFolder, save>>
    /\ UNCHANGED <<modalVars, tmVars, svcVars>>

\* a millisecond passes
fsTick ==
    /\ fsNow < MaxStamp
    /\ fsNow' = fsNow + 1
    /\ UNCHANGED <<outputFolder, outputFiles, save>>
    /\ UNCHANGED <<modalVars, tmVars, svcVars>>

FSNext ==
    \/ \E n \in TemplateNames, c \in FilledContents : saveStart(n, c)
    \/ \E ok \in BOOLEAN : folderDone(ok)
    \/ \E ok \in BOOLEAN : createDone(ok)
    \/ \E k \in FileKeys : externalCreate(k)
    \/ fsTick

\* ---------------------------------------------------------- specifications
\* the output folder as a fresh vault has it
DefaultFS == InitFS /\ outputFolder

\* one modal session; the template manager is seen through the found inputs
\* the services as the default settings build them
DefaultSvc ==
    /\ InitSvc
    /\ llmConfig = LLMConfig(OpenRouter, "", "", DefaultOptions)
    /\ useOptimization

Init ==
    /\ InitModal
    /\ InitTM
    /\ vault.folder
    /\ templateExtension = "md"
    /\ DefaultSvc
    /\ DefaultFS

Next == ModalNext

Spec == Init /\ [][Next]_vars

\* a session with prompt optimization switched off, in which every awaited
\* operation of the submit handler eventually settles
FairInit == Init /\ ~config.useOptimization

FairNext == ModalCore

Fairness ==
    /\ WF_vars(\E resp \in Responses : generateDone(resp))
    /\ WF_vars(\E ok \in BOOLEAN : writeDone(ok))

FairSpec == FairInit /\ [][FairNext]_vars /\ Fairness

\* the template manager under concurrent callers
InitTMOnly ==
    /\ InitModal
    /\ config = [useOptimization |-> TRUE, adapterReady |-> TRUE]
    /\ InitTM
    /\ DefaultSvc
    /\ DefaultFS

NextTM == TMNext

SpecTM == InitTMOnly /\ [][NextTM]_vars

\* the LLM service, the adapter and the optimizer under one caller and
\* settings updates
InitLLM ==
    /\ InitModal
    /\ config = [useOptimization |-> TRUE, adapterReady |-> TRUE]
    /\ InitTM
    /\ vault.folder
    /\ templateExtension = "md"
    /\ InitSvc
    /\ DefaultFS

\* the file service under one caller, another writer and the clock
InitFSOnly ==
    /\ InitModal
    /\ config = [useOptimization |-> TRUE, adapterReady |-> TRUE]
    /\ InitTM
    /\ vault.folder
    /\ DefaultSvc
    /\ InitFS

NextFS == FSNext

\* the instruction field of one session with prompt optimization on: input,
\* the debounced listener and the optimizePrompt calls it starts, with the
\* order of the calls recorded
InitOpt ==
    /\ InitModalFrom(TRUE)
    /\ config = [useOptimization |-> TRUE, adapterReady |-> TRUE]
    /\ InitTM
    /\ vault.folder
    /\ templateExtension = "md"
    /\ DefaultSvc
    /\ DefaultFS

OptNext ==
    \/ \E loaded \in BOOLEAN : onOpen(loaded)
    \/ \E t \in Templates : onSelect(t)
    \/ \E v \in Texts : inputEvent(v)
    \/ onClose
    \/ \E found \in BOOLEAN : debounceFire(found)
    \/ \E i \in 1..MaxOpt, resp \in Responses : optimizeDone(i, resp)

SpecOpt == InitOpt /\ [][OptNext]_vars

\* the services of a loaded plugin, with the settings tab open
SpecPlugin == InitLLM /\ [][PluginNext]_vars

SpecFS == InitFSOnly /\ [][NextFS]_vars

NextLLM == SvcNext

SpecLLM == InitLLM /\ [][NextLLM]_vars

\* ------------------------------------------------------------ properties

\* C1: a submit that arrives while the session is PROCESSING starts nothing:
\* no step taken from a PROCESSING state begins another handler run, at most
\* one handler is suspended at any time, and one accepted submit makes at
\* most one generateFilledTemplate call and one createFilledFile call.
C1_SubmitWhileRunningIgnored ==
    /\ [](stats.inFlight <= 1 /\ stats.genCalls <= 1 /\ stats.writeCalls <= 1)
    /\ [][processingStatus = PROCESSING =>
            /\ stats'.inFlight <= stats.inFlight
            /\ stats'.genCalls >= stats.genCalls]_vars

\* a submit was clicked while the generation was in flight
C1_Witness ==
    /\ processingStatus = PROCESSING
    /\ submitPc = "generate"
    /\ stats.ignored = 1

\* C2: once the modal is closed, a result that arrives is ignored: no
\* createFilledFile call, no file, no success notice, no change of status.
C2_ResultAfterCloseIgnored ==
    [][phase = "closed" =>
         /\ files' = files
         /\ stats'.writeCalls = stats.writeCalls
         /\ stats'.successNotices = stats.successNotices
         /\ processingStatus' = processingStatus]_vars

\* C3: the stages never overlap: createFilledFile is called only for a
\* generation that returned, and at most one adapter request of the session
\* is outstanding, whatever the order of instruction edits and submits.
C3_StagesSequential ==
    /\ stats.writeCalls <= stats.genOk
    /\ Outstanding <= 1

\* C4: the session becomes PROCESSING only when a template is selected and
\* the trimmed instruction is not empty.
C4_RunningNeedsTemplateAndInstruction ==
    [][(processingStatus # PROCESSING /\ processingStatus' = PROCESSING) =>
         /\ selectedTemplate # NoTemplate
         /\ Truthy(Trim(promptValue))]_vars

\* C5: every run of the submit handler ends with processingStatus IDLE:
\* whenever no handler is suspended the status is IDLE, and a PROCESSING
\* session eventually becomes IDLE, given that the awaited operations settle.
C5_ReturnsToIdle ==
    /\ [](submitPc = "none" => processingStatus = IDLE)
    /\ (processingStatus = PROCESSING) ~> (processingStatus = IDLE)

\* a handler run ended in the catch block and left the session idle
C5_Witness ==
    /\ stats.errors = 1
    /\ stats.genCalls = 1
    /\ submitPc = "none"
    /\ processingStatus = IDLE
    /\ phase = "open"

\* C6: COMPLETE and the success notice come only after the generation
\* returned text and createFilledFile completed; a failed stage gives ERROR
\* with a failure notice and no success notice; createFilledFile is called
\* only for a generation that succeeded, and a failing step creates no file.
C6_SuccessOnlyAfterWrite ==
    /\ [] /\ stats.completes = stats.successNotices
          /\ stats.successNotices = stats.writesOk
          /\ stats.writesOk <= stats.writeCalls
          /\ stats.writeCalls = stats.genOk
          /\ stats.genOk <= stats.genCalls
          /\ stats.errors = stats.failureNotices
          /\ stats.errors + stats.completes + stats.inFlight = stats.accepted
          /\ Cardinality(files) = stats.completes
    /\ [][stats'.errors > stats.errors => files' = files]_vars

\* a submit ran to completion and its file was written
C6_Witness ==
    /\ stats.completes = 1
    /\ stats.successNotices = 1
    /\ files # {}

\* the Template entries a scan of folder p would produce in vault v
FolderTemplates(v, p) ==
    {createTemplate(v, f) : f \in SeqToSet(WalkTemplates(v, p))}

\* a step in which caller p enters one of the public methods
Enters(p) == pc[p] = "idle" /\ pc'[p] # "idle"

\* a step in which the public method of caller p returns or raises
Answers(p) == pc[p] = "answer" /\ pc'[p] = "idle"

\* C7 as stated: of two getTemplates calls answered one after the other
\* (with no reset in between), the second returns the same set when it
\* started later than the first by less than the scan interval, and the
\* templates of the folder as it is when it started more than the interval
\* after it.
C7_AsStated ==
    [][(/\ lastAnswer.op = "getTemplates"
        /\ lastAnswer'.op = "getTemplates"
        /\ \E p \in Procs : Answers(p)) =>
         /\ (lastAnswer'.t - lastAnswer.t \in 1..(ScanInterval - 1)
                => lastAnswer'.value = lastAnswer.value)
         /\ (lastAnswer'.t - lastAnswer.t > ScanInterval
                /\ IsFolder(vault, templatesPath)
                => lastAnswer'.value = FolderTemplates(vault, templatesPath))]_vars

\* C7 amended: the interval is measured from lastScanTime, not from the
\* previous call.  A call that starts at most ScanInterval after lastScanTime
\* starts no scan and leaves the cache as it is; a call that starts later
\* scans, walking the template files the folder holds now; and getTemplates
\* answers with the content of the cache.
C7_StalenessFromLastScan ==
    /\ [][\A p \in Procs : Enters(p) =>
            IF now - lastScanTime <= ScanInterval
            THEN /\ pc'[p] = "answer"
                 /\ call'[p].scan = "none"
                 /\ templateCache' = templateCache
            ELSE /\ call'[p].scan # "none"
                 /\ IsFolder(vault, templatesPath) =>
                       /\ pc'[p] = "walk"
                       /\ call'[p].todo = WalkTemplates(vault, templatesPath)]_vars
    /\ [][\A p \in Procs : (Answers(p) /\ lastAnswer'.op = "getTemplates") =>
            lastAnswer'.value = CacheValues(templateCache)]_vars

\* a call is about to be answered from a cache that the folder has outgrown
C7_Witness ==
    \E p \in Procs :
        /\ pc[p] = "answer"
        /\ call[p].scan = "none"
        /\ lastScanTime > 0
        /\ now - lastScanTime > 0
        /\ IsFolder(vault, templatesPath)
        /\ CacheValues(templateCache) # FolderTemplates(vault, templatesPath)

\* C8: when a scan of an existing folder completes, the cache holds exactly
\* one entry per template file found in the walk, each under its own path.
C8_CacheIsTheWalk ==
    [][\A p \in Procs : (pc[p] = "walk" /\ pc'[p] = "stamp") =>
         /\ DOMAIN templateCache' = call[p].currentTemplates
         /\ \A k \in DOMAIN templateCache' : templateCache'[k].path = k]_vars

\* C9: a scan of a templates path that is not a folder changes nothing in
\* the cache and raises nothing: the call goes on to answer from the cache.
C9_MissingFolderNoOp ==
    /\ [][\A p \in Procs :
            (Enters(p) /\ scanNeeded(now, lastScanTime)
                /\ ~IsFolder(vault, templatesPath)) =>
                   /\ templateCache' = templateCache
                   /\ pc'[p] = "stamp"
                   /\ call'[p].scan = "missing"]_vars
    /\ [][\A p \in Procs :
            (call[p].scan = "missing" /\ pc'[p] = "idle") =>
                   /\ lastAnswer'.raised # "FILE_SYSTEM_ERROR"
                   /\ lastAnswer'.op = "getTemplates" =>
                         lastAnswer'.value = CacheValues(templateCache)]_vars

\* a scan found no folder and the earlier cache content is still there
C9_Witness ==
    \E p \in Procs :
        /\ pc[p] = "stamp"
        /\ call[p].scan = "missing"
        /\ templateCache # EmptyMap

\* C10: the first call that starts after clearCache or setTemplatesPath
\* scans the folder before it answers.
C10_ResetForcesRescan ==
    [][\A p \in Procs : (Enters(p) /\ resetPending) => call'[p].scan # "none"]_vars

\* the files that lie under folder p, at any depth, with extension e
FolderFiles(v, p, e) ==
    {f \in SeqToSet(Walk(v, p)) : FileInfo[f].ext = e}

\* C11: a scan stores the files that lie under the configured templates
\* path with the configured template extension, and no other file: the
\* files a starting scan is going to store are exactly those, and each
\* step of the walk stores the file it is at under that file's path.
C11_ScanStoresConfiguredFiles ==
    /\ [][\A p \in Procs : (Enters(p) /\ pc'[p] = "walk") =>
            SeqToSet(call'[p].todo)
                = FolderFiles(vault, templatesPath, templateExtension)]_vars
    /\ [][\A p \in Procs :
            (pc[p] = "walk" /\ pc'[p] = "walk"
                /\ Len(call[p].todo) > Len(call'[p].todo)) =>
                LET f == Head(call[p].todo)
                IN  /\ FileInfo[f].path \in DOMAIN templateCache'
                    /\ templateCache'[FileInfo[f].path] = createTemplate(vault, f)]_vars

\* C12: getTemplate and loadTemplate raise NOT_FOUND when the path is absent
\* from the cache after the refresh, and neither returns a value then.
C12_AbsentPathRaisesNotFound ==
    [][\A p \in Procs :
         (/\ Answers(p)
          /\ lastAnswer'.op \in {"getTemplate", "loadTemplate"}
          /\ lastAnswer'.path \notin DOMAIN templateCache) =>
               /\ lastAnswer'.raised = "NOT_FOUND"
               /\ lastAnswer'.value = {}
               /\ lastAnswer'.content = <<>>]_vars

\* C13: when the template is known and its file is read, loadTemplate
\* returns the content unchanged exactly when the content has a character
\* that is not whitespace, and raises INVALID_CONTENT otherwise; it never
\* returns an empty text.
C13_LoadValidatesContent ==
    /\ [][\A p \in Procs :
            (/\ Answers(p)
             /\ lastAnswer'.op = "loadTemplate"
             /\ lastAnswer'.path \in DOMAIN templateCache
             /\ lastAnswer'.read.ok) =>
                  IF \E i \in 1..Len(lastAnswer'.read.content) :
                         ~IsSpace(lastAnswer'.read.content[i])
                  THEN /\ lastAnswer'.raised = "none"
                       /\ lastAnswer'.content = lastAnswer'.read.content
                  ELSE /\ lastAnswer'.raised = "INVALID_CONTENT"
                       /\ lastAnswer'.content = <<>>]_vars
    /\ [](lastAnswer.op = "loadTemplate" /\ lastAnswer.raised = "none"
            => lastAnswer.content # <<>>)

\* loadTemplate has refused a file that holds only whitespace
C13_Witness ==
    /\ lastAnswer.op = "loadTemplate"
    /\ lastAnswer.read = [ok |-> TRUE, content |-> <<" ">>]
    /\ lastAnswer.path \in DOMAIN templateCache
    /\ lastAnswer.raised = "INVALID_CONTENT"

\* an optimize call has returned
OptimizeReturned == svc.fn = "optimize" /\ svc.pc = "idle"

\* C14: with optimization disabled, optimize(p, t) returns exactly p and
\* issues no generation call.
C14_DisabledOptimizeIsIdentity ==
    (svc.fn = "optimize" /\ ~useOptimization) =>
        /\ svc.pc = "idle"
        /\ svc.raised = ""
        /\ svc.text = svc.userPrompt
        /\ svc.genCalls = 0
        /\ svc.adapterCalls = 0
        /\ svc.httpRequests = 0

\* optimize was called with optimization off on an instruction that
\* trimming would change
C14_Witness ==
    /\ svc.fn = "optimize"
    /\ ~useOptimization
    /\ svc.userPrompt = <<" ">>
    /\ svc.text = <<" ">>

\* the optimization step of the call failed: no adapter, no API key, a
\* failure result of the adapter, or an empty reply
OptimizationFailed ==
    \/ ~svc.hadAdapter
    \/ svc.httpRequests = 0
    \/ svc.out.thrown # ""
    \/ ~svc.out.response.success
    \/ svc.out.response.data = <<>>

\* C15: with optimization enabled, an optimize call whose optimization step
\* failed returns exactly the original instruction and raises nothing.
C15_FailedOptimizeFallsBack ==
    (OptimizeReturned /\ useOptimization /\ OptimizationFailed) =>
        /\ svc.raised = ""
        /\ svc.text = svc.userPrompt

\* the adapter answered an optimize call with a failure result
C15_Witness ==
    /\ OptimizeReturned
    /\ useOptimization
    /\ svc.httpRequests = 1
    /\ svc.http.kind = "status"
    /\ svc.userPrompt = <<"a">>
    /\ svc.text = <<"a">>

\* C16 as stated: combine(templateContent, instruction) returns the
\* instruction character for character and never the template content.
C16_AsStated ==
    svc.fn = "combine" => svc.text = svc.userPrompt

\* C16 amended: combine returns the instruction with the whitespace at its
\* ends removed when both arguments are non-empty, the instruction as it is
\* when the template content is empty, and the template content when only
\* the instruction is empty.
C16_CombineTrimsOrFallsBack ==
    svc.fn = "combine" =>
        svc.text = IF svc.templateContent = <<>> THEN svc.userPrompt
                   ELSE IF svc.userPrompt = <<>> THEN svc.templateContent
                   ELSE Trim(svc.userPrompt)

\* combine was given a template and a whitespace-only instruction
C16_Witness ==
    /\ svc.fn = "combine"
    /\ svc.templateContent = ObjectText
    /\ svc.userPrompt = <<" ">>
    /\ svc.text = <<>>

\* C17 as stated: every optimize call with optimization enabled issues
\* exactly one adapter generation request.
C17_AsStated ==
    (OptimizeReturned /\ useOptimization) => svc.adapterCalls = 1

\* C17 amended: every optimize call with optimization enabled makes exactly
\* one generateFilledTemplate call, which issues one adapter generation
\* request when the service holds an adapter and none otherwise; the call
\* ends with the first reply and never enters optimize again.
C17_OneGenerationCall ==
    /\ [] ((svc.fn = "optimize" /\ useOptimization) =>
              /\ svc.optCalls = 1
              /\ svc.genCalls = 1
              /\ svc.adapterCalls = (IF svc.hadAdapter THEN 1 ELSE 0)
              /\ svc.httpRequests <= svc.adapterCalls)
    /\ [] (svc.fn = "generate" => svc.optCalls = 0 /\ svc.adapterCalls <= 1)
    /\ [][(svc.pc = "http" /\ svc' # svc) => svc'.pc = "idle"]_vars

\* an optimize call was answered by the adapter and returned the cleaned text
C17_Witness ==
    /\ OptimizeReturned
    /\ useOptimization
    /\ svc.http.kind = "ok"
    /\ svc.http.text = <<Quote, "a", Quote>>
    /\ svc.text = <<"a">>
    /\ svc.adapterCalls = 1

\* C18: whatever the HTTP request comes to other than a usable payload,
\* generateResponse resolves to a failure result with a non-empty error and
\* token counts 0, and rejects with nothing.
C18_AdapterCatchesTransportErrors ==
    (svc.http.kind \notin {"none", "ok"}) =>
        /\ svc.out.thrown = ""
        /\ ~svc.out.response.success
        /\ svc.out.response.error # ""
        /\ svc.out.response.tokens = ZeroTokens

\* the request was rejected with an error that carries no message
C18_Witness ==
    /\ svc.http.kind = "rejected"
    /\ svc.http.message = ""
    /\ svc.out.response.error = "Unknown error occurred."

\* C19: with a provider other than OpenRouter the service holds no adapter,
\* and without an adapter generateFilledTemplate raises 'LLM Adapter is not
\* initialized.', testConnection returns false, getAvailableModels returns
\* the empty list, and none of them calls the adapter or the network.
C19_NoAdapterIsBenign ==
    /\ llmConfig.provider # OpenRouter => adapter = NoAdapter
    /\ (svc.fn # "none" /\ ~svc.hadAdapter) =>
          /\ svc.pc = "idle"
          /\ svc.adapterCalls = 0
          /\ svc.httpRequests = 0
          /\ svc.fn = "generate" => svc.raised = NotInitialized /\ svc.text = <<>>
          /\ svc.fn = "testConnection" => svc.raised = "" /\ ~svc.flag
          /\ svc.fn = "getAvailableModels" => svc.raised = "" /\ svc.models = {}

\* the provider was switched away from OpenRouter and a generation was asked
C19_Witness ==
    /\ llmConfig.provider = LMStudio
    /\ adapterCount = 1
    /\ svc.fn = "generate"
    /\ svc.raised = NotInitialized

\* the adapter the configuration cfg asks for
AdapterFor(cfg, a) ==
    IF cfg.provider # OpenRouter THEN a = NoAdapter
    ELSE /\ a # NoAdapter
         /\ a.apiKey = cfg.apiKey
         /\ a.apiUrl = IF cfg.apiUrl # "" THEN cfg.apiUrl ELSE DefaultApiUrl

\* C20: after any sequence of updateSettings calls the service holds an
\* adapter exactly when the provider of the latest configuration is
\* OpenRouter, that adapter carries the apiKey and apiUrl of the latest
\* configuration (the default URL when it has none), and it is an object
\* constructed by the latest call.
C20_AdapterFollowsLatestConfig ==
    /\ [] AdapterFor(llmConfig, adapter)
    /\ [][(llmConfig' # llmConfig \/ adapter' # adapter
              \/ adapterCount' # adapterCount) =>
            /\ AdapterFor(llmConfig', adapter')
            /\ adapter' # NoAdapter =>
                  /\ adapter'.id = adapterCount'
                  /\ adapter'.id > adapter.id
                  /\ adapterCount' = adapterCount + 1]_vars

\* updateSettings has built a second adapter, for a configuration without
\* key and URL
C20_Witness ==
    /\ adapter.id = 2
    /\ adapter.apiKey = ""
    /\ adapter.apiUrl = DefaultApiUrl
    /\ llmConfig.provider = OpenRouter

\* a direct generateFilledTemplate call whose adapter call resolved to a result
GenerateReturned ==
    svc.fn = "generate" /\ svc.pc = "idle" /\ svc.httpRequests = 1

\* C21: generateFilledTemplate raises the generation error exactly when the
\* adapter result has success = FALSE or an empty text, and otherwise
\* returns the result text trimmed; it returns no text with the error and
\* never the text of a failed result
C21_GenerateRaisesOrTrims ==
    GenerateReturned =>
        LET r == svc.out.response
        IN  IF ~r.success \/ r.data = <<>>
            THEN svc.raised = GenerationFailed /\ svc.text = <<>>
            ELSE svc.raised = "" /\ svc.text = Trim(r.data)

\* a result with surrounding whitespace was returned trimmed
C21_Witness ==
    /\ GenerateReturned
    /\ svc.out.response.success
    /\ svc.out.response.data = <<" ", "a">>
    /\ svc.raised = ""
    /\ svc.text = <<"a">>

\* a step in which generateFilledTemplate hands a request to the adapter
CallsAdapter ==
    /\ svc.pc = "idle"
    /\ svc' # svc
    /\ svc'.fn \in {"generate", "optimize"}
    /\ svc'.adapterCalls = 1

\* C22: for every configuration with a temperature in [0, 1], maxTokens > 0
\* and a model, the options generateFilledTemplate passes to
\* adapter.generateResponse carry exactly the configured temperature,
\* maxTokens and model
C22_OptionsCarryConfig ==
    [][(/\ CallsAdapter
        /\ llmConfig.temperature \in 0..10
        /\ llmConfig.maxTokens > 0
        /\ llmConfig.model # "")
       => /\ svc'.options.temperature = llmConfig.temperature
          /\ svc'.options.maxTokens = llmConfig.maxTokens
          /\ svc'.options.model = llmConfig.model]_vars

\* the count a successful result must report for a count of the reply
Reported(count) == IF count = Missing THEN 0 ELSE count

\* C30: every result generateResponse resolves to has one payload: a
\* success result has data set and no error, with every token count the
\* reply lacks reported as 0; a failure result has a non-empty error, no
\* data and token counts 0
C30_OnePayloadPerResult ==
    (svc.http.kind # "none" /\ svc.out.thrown = "") =>
        LET r == svc.out.response
            u == svc.http.usage
        IN  IF r.success
            THEN /\ "data" \in r.keys
                 /\ "error" \notin r.keys
                 /\ r.tokens = [input |-> Reported(u.prompt_tokens),
                                output |-> Reported(u.completion_tokens),
                                total |-> Reported(u.total_tokens)]
            ELSE /\ "error" \in r.keys
                 /\ r.error # ""
                 /\ "data" \notin r.keys
                 /\ r.tokens = ZeroTokens

\* a successful reply whose usage carries one count only
C30_Witness ==
    /\ svc.http.kind = "ok"
    /\ svc.http.usage.prompt_tokens = 1
    /\ svc.http.usage.total_tokens = Missing
    /\ svc.out.response.success
    /\ svc.out.response.tokens = [input |-> 1, output |-> 0, total |-> 0]

\* the last accepted submit failed and its handler has returned
Failed == stats.errors = 1 /\ submitPc = "none"

\* C25 as stated: after a failed generation or write, no step other than an
\* accepted submit issues an adapter request or writes a file.
C25_AsStated ==
    [][(Failed /\ stats.genCalls = 1 /\ stats' = stats) =>
          /\ Outstanding' <= Outstanding
          /\ files' = files]_vars

\* C25: nothing is retried: one accepted submit makes at most one
\* final-generation request and at most one createFilledFile call, a failure
\* ends the handler, and after a failure the next final-generation request
\* or file write belongs to a new submit, i.e. a click on the enabled
\* control of the open modal with a template selected.  (An instruction
\* edit may still issue a prompt-optimization request.)
C25_NoAutomaticRetry ==
    /\ [](/\ stats.genCalls <= stats.accepted
          /\ stats.writeCalls <= stats.accepted
          /\ stats.accepted <= 1)
    /\ [](stats.errors > 0 => Failed)
    /\ [][(Failed /\ stats' = stats) =>
             /\ files' = files
             /\ submitPc' = "none"]_vars
    /\ [][(Failed /\ stats' # stats) =>
             /\ phase = "open" /\ ~buttonDisabled
             /\ selectedTemplate # NoTemplate
             /\ stats'.accepted = 1
             /\ stats'.genCalls <= 1
             /\ stats'.writeCalls = 0]_vars

\* a generation failed and the session stays open with its timers running
C25_Witness ==
    /\ Failed
    /\ stats.genCalls = 1
    /\ stats.genOk = 0
    /\ lastNotice = "failure"
    /\ phase = "open"
    /\ intervalId

\* C26: with optimization disabled, the prompt of the outstanding generation
\* request holds the text of the selected template file between the
\* template markers and the user's instruction after it, and a successful
\* run creates exactly one file, for that template, whose content is the
\* response text.
C26_PromptHoldsTemplateText ==
    /\ []((submitPc = "generate" /\ ~config.useOptimization) =>
            pipeline.section = TemplateText[pipeline.template])
    /\ [][(~config.useOptimization /\ stats'.writesOk > stats.writesOk) =>
            \E f \in files' :
                /\ files' \subseteq files \cup {f}
                /\ f.content = pipeline.content]_vars

\* the guard of the submit control
Ready == selectedTemplate # NoTemplate /\ Truthy(Trim(promptValue))

\* C27: while the modal is open and the session is not PROCESSING, the
\* submit control is enabled exactly when a template is selected and the
\* trimmed instruction is non-empty, and no step enables the control while
\* that guard is false.
C27_SubmitEnabledIffReady ==
    /\ []((phase = "open" /\ processingStatus # PROCESSING) =>
            (~buttonDisabled <=> Ready))
    /\ [][(phase' = "open" /\ buttonDisabled /\ ~buttonDisabled') =>
            Ready']_vars

\* C28: closing the modal cancels its timers: once the modal is closed the
\* 100 ms interval is cleared and no pending debounce timer fires, while an
\* adapter request that was already sent still settles.
C28_CloseCancelsTimers ==
    /\ [](phase = "closed" => ~intervalId)
    /\ [][phase = "closed" => debouncePending' = debouncePending]_vars

\* a step in which the scan of caller p raises
ScanRaises(p) == pc[p] = "walk" /\ pc'[p] = "idle"

\* C29: a call starts a scan only if now - lastScanTime > 5000, so not at
\* exactly 5000; apart from the resets to 0, lastScanTime changes only when
\* a scan completed without raising, and then to the time that call read
\* before its scan began; a scan that raises leaves lastScanTime unchanged,
\* so that the cache is still due for a scan.
C29_ScanGateAndStamp ==
    /\ [][\A p \in Procs :
            Enters(p) =>
               /\ call'[p].t = now
               /\ call'[p].scan # "none" <=> now - lastScanTime > ScanInterval]_vars
    /\ [][lastScanTime' # lastScanTime =>
            \/ lastScanTime' = 0 /\ resetPending'
            \/ \E p \in Procs :
                  /\ pc[p] = "stamp" /\ pc'[p] = "answer"
                  /\ call[p].scan # "none"
                  /\ lastScanTime' = call[p].t
                  /\ lastScanTime' > lastScanTime]_vars
    /\ [][\A p \in Procs :
            ScanRaises(p) =>
               /\ lastScanTime' = lastScanTime
               /\ lastScanTime # call[p].t =>
                     now - lastScanTime' > ScanInterval]_vars

\* a call made exactly 5000 ms after the last scan answers without scanning
C29_Witness ==
    \E p \in Procs :
        /\ pc[p] = "answer"
        /\ call[p].scan = "none"
        /\ lastScanTime > 0
        /\ call[p].t - lastScanTime = ScanInterval

\* the path createFilledFile computed in the call that save records
SaveKey == <<save.file.name, save.file.stamp>>

\* the paths at which a step creates a file
NewFiles == {k \in FileKeys : ~outputFiles[k].exists /\ outputFiles'[k].exists}

\* a step of the createFilledFile call
SaveStep == save' # save

\* C23: createFilledFile never overwrites or modifies an existing file: the
\* name it computes is the template name, the timestamp and the extension;
\* if a file exists at that path the call raises 'File already exists' and
\* leaves the storage unchanged; otherwise one call creates at most one new
\* file, at that path, holding the content it was given.
C23_NeverOverwrites ==
    /\ [][\A k \in FileKeys :
            outputFiles[k].exists => outputFiles'[k] = outputFiles[k]]_vars
    /\ [][(SaveStep /\ save.pc \in {"idle", "folder"} /\ save'.named) =>
            /\ save'.file = fileName(save'.template, fsNow,
                                     fileExtension(templateExtension))
            /\ IF outputFiles[<<save'.template, fsNow>>].exists
               THEN /\ save'.raised = FileExists
                    /\ save'.pc = "idle"
                    /\ outputFiles' = outputFiles
               ELSE save'.raised = "" /\ save'.pc = "create"]_vars
    /\ [][SaveStep =>
            /\ NewFiles \subseteq {SaveKey}
            /\ NewFiles # {} =>
                  /\ save.pc = "create" /\ save'.pc = "idle"
                  /\ outputFiles'[SaveKey] = File(save.content)]_vars

\* the call found another writer's file at its path, raised, and the file
\* still holds that writer's text
C23_Witness ==
    /\ save.pc = "idle"
    /\ save.raised = FileExists
    /\ outputFiles[SaveKey] = File(ExternalText)

\* C24: every storage failure inside createFilledFile is raised to the
\* caller: when the folder creation fails the call raises and creates
\* neither folder nor file, when the write fails the call raises and no file
\* appears; the submit handler then ends the request through its catch
\* block (failure Notice, ERROR, then IDLE, modal left open) and no Notice
\* reports a saved file.
C24_StorageFailuresRaised ==
    /\ []((save.pc = "idle" /\ save.io # "none") =>
            /\ save.raised = (IF save.io = "folder" THEN FolderFailed
                              ELSE CreateFailed)
            /\ save.reached = ERROR
            /\ save.status = IDLE
            /\ ~save.closed
            /\ "failure" \in save.notices
            /\ save.notices \cap {"success", "saved"} = {})
    /\ [][(SaveStep /\ save'.io = "folder") =>
            /\ save.pc = "folder" /\ save'.pc = "idle"
            /\ ~outputFolder'
            /\ outputFiles' = outputFiles]_vars
    /\ [][(SaveStep /\ save'.io = "create") =>
            /\ save.pc = "create" /\ save'.pc = "idle"
            /\ outputFiles' = outputFiles]_vars

\* the write of a named file failed and the handler reported the failure
C24_Witness ==
    /\ save.pc = "idle"
    /\ save.io = "create"
    /\ save.named
    /\ ~outputFiles[SaveKey].exists
    /\ "failure" \in save.notices

\* an optimize call whose reply went through cleanResponse, and that reply
\* as generateFilledTemplate returned it
Cleaned ==
    /\ OptimizeReturned
    /\ useOptimization
    /\ svc.httpRequests = 1
    /\ svc.out.response.success
    /\ svc.out.response.data # <<>>

Reply == Trim(svc.out.response.data)

\* the quoted substrings of s that are not empty: an opening quote, the
\* closing quote, and one character or more between them, none a quote
QuotedSpans(s) ==
    {span \in (1..Len(s)) \X (1..Len(s)) :
        /\ span[1] + 1 < span[2]
        /\ s[span[1]] = Quote
        /\ s[span[2]] = Quote
        /\ \A k \in (span[1] + 1)..(span[2] - 1) : s[k] # Quote}

\* the first line of s
FirstLine(s) ==
    CHOOSE line \in {SubSeq(s, 1, n) : n \in 0..Len(s)} :
        /\ \A k \in 1..Len(line) : line[k] # Newline
        /\ Len(line) = Len(s) \/ s[Len(line) + 1] = Newline

\* s without its lead-in up to the first colon, when it begins with one
WithoutLeadIn(s) ==
    IF s # <<>> /\ s[1] = LeadIn /\ \E k \in 2..Len(s) : s[k] = Colon
    THEN CHOOSE rest \in {SubSeq(s, n + 1, Len(s)) : n \in 2..Len(s)} :
            LET n == Len(s) - Len(rest)
            IN  s[n] = Colon /\ \A k \in 2..(n - 1) : s[k] # Colon
    ELSE s

\* C31: cleanResponse returns the first non-empty double-quoted substring
\* of the reply, trimmed, when the reply has one, and otherwise the first
\* line of the reply without a leading lead-in up to the first colon,
\* trimmed.
C31_CleanResponseExtracts ==
    Cleaned =>
        IF QuotedSpans(Reply) # {}
        THEN \E span \in QuotedSpans(Reply) :
                /\ \A other \in QuotedSpans(Reply) : span[1] <= other[1]
                /\ svc.text = Trim(SubSeq(Reply, span[1] + 1, span[2] - 1))
        ELSE svc.text = Trim(WithoutLeadIn(FirstLine(Reply)))

\* the reply  Here's a prompt: "a"  was cleaned to  a
C31_Witness ==
    /\ Cleaned
    /\ svc.out.response.data = <<LeadIn, Colon, " ", Quote, "a", Quote>>
    /\ svc.text = <<"a">>

\* C32: the output file is written for the template that was selected when
\* the submit was accepted, whose content was sent for generation, also
\* when another template is selected while the request is outstanding.
C32_FileForSubmittedTemplate ==
    /\ [](submitPc = "write" => pipeline.writeTemplate = pipeline.template)
    /\ [][\A f \in files' \ files : f.template = pipeline.template]_vars

\* C33: after setTemplatesPath or clearCache, a scan that started before the
\* reset neither puts an entry into the cache nor advances lastScanTime:
\* as long as no call has started since the reset, the cache gains no entry
\* and lastScanTime does not grow.
C33_ResetDiscardsOlderScan ==
    [][(resetPending /\ resetPending') =>
          /\ CacheValues(templateCache') \subseteq CacheValues(templateCache)
          /\ lastScanTime' <= lastScanTime]_vars

\* a step in which generateFilledTemplate is called
GenerateCalled == svc.pc = "idle" /\ svc' # svc /\ svc'.fn = "generate"

\* C34: at every generateFilledTemplate call the adapter the service holds
\* is the one the current settings ask for: present exactly for a provider
\* that has an adapter, and configured with the current API key.
C34_AdapterMatchesSettings ==
    [][GenerateCalled => AdapterFor(llmConfig, adapter)]_vars

\* a step in which an optimizePrompt call assigns its result to the field
OptimizeAssigns == Len(optInFlight') < Len(optInFlight)

\* C35: when optimizePrompt calls overlap, the result computed for an older
\* instruction never replaces, in the optimized-prompt field, the result
\* computed for a newer and different instruction.
C35_NewestOptimizationStays ==
    [][OptimizeAssigns =>
          \/ optimizedValue'.older >= optimizedValue.older
          \/ optimizedValue'.src = optimizedValue.src]_vars

\* C36: with optimization enabled and a non-empty instruction, optimize
\* returns a non-empty instruction whatever the adapter replied.
C36_OptimizeNeverEmpty ==
    (OptimizeReturned /\ useOptimization /\ svc.userPrompt # <<>>)
        => svc.text # <<>>

\* C37: generateFilledTemplate never returns an empty string: a call that
\* returns instead of raising returns text with content, also when the
\* adapter reported success with whitespace only.
C37_GenerateNeverEmpty ==
    (svc.fn = "generate" /\ svc.pc = "idle" /\ svc.raised = "")
        => svc.text # <<>>

\* a call of the adapter made without an API key has settled
KeylessCallSettled ==
    svc.pc = "idle" /\ svc.adapterCalls = 1 /\ svc.httpRequests = 0

\* C38: without an API key generateResponse sends no HTTP request and
\* resolves to a failure result with an error message instead of rejecting,
\* and testConnection returns false.
C38_MissingKeyIsFailureResult ==
    /\ (svc.adapterCalls > 0 /\ svc.httpRequests = 0) => svc.pc = "idle"
    /\ KeylessCallSettled =>
          /\ svc.out.thrown = ""
          /\ ~svc.out.response.success
          /\ svc.out.response.error # ""
          /\ (svc.fn = "testConnection" => ~svc.flag)

====
